---- MODULE Spec2Model ----
(***************************************************************************)
(* rust-signedjson: canonical JSON, the signature container, named keys    *)
(* and the FrozenStruct wrapper.                                           *)
(*                                                                         *)
(* Bytes are sequences of JSON tokens (punctuation, whitespace, literals); *)
(* a string literal is one token, so whitespace tokens are exactly the     *)
(* whitespace outside string literals.  serde_json::Value is a tagged      *)
(* record; an object is a function from its keys (a BTreeMap).             *)
(***************************************************************************)
EXTENDS Integers, Sequences, FiniteSets, TLC

VARIABLES phase, input, frozen, canon0, muts, last

vars == <<phase, input, frozen, canon0, muts, last>>

(***************************************************************************)
(* Option<T>                                                               *)
(***************************************************************************)
None == <<>>

Some(x) == <<x>>

IsSome(o) == Len(o) = 1

Unwrap(o) == o[1]

(***************************************************************************)
(* serde_json::Value                                                       *)
(***************************************************************************)
Num(n) == [k |-> "num", n |-> n]

Str(s) == [k |-> "str", s |-> s]

\* A JSON string whose text is the base64 text of `bytes`, with or without
\* trailing '=' padding.
B64Str(bytes, pad) == [k |-> "str", b64 |-> bytes, pad |-> pad]

Arr(a) == [k |-> "arr", a |-> a]

Obj(m) == [k |-> "obj", m |-> m]

EmptyMap == [x \in {} |-> x]

\* BTreeMap::insert
MapInsert(m, key, v) == [x \in (DOMAIN m) \cup {key} |-> IF x = key THEN v ELSE m[x]]

\* BTreeMap::remove
MapRemove(m, key) == [x \in (DOMAIN m) \ {key} |-> m[x]]

\* Every string used as an object key, in ascending byte order (the order
\* of BTreeMap<String, _>).
KeyOrder == <<"a", "b", "e1", "e2", "k1", "k2", "signatures", "unsigned">>

\* Faulty variant: the keys of S in descending order.
DescendingKeys(S) ==
    LET q == SelectSeq(KeyOrder, LAMBDA x : x \in S)
    IN [i \in 1..Len(q) |-> q[Len(q) + 1 - i]]

\* The keys of S in BTreeMap iteration order.
SortedKeys(S) == SelectSeq(KeyOrder, LAMBDA x : x \in S)

(***************************************************************************)
(* Tokens                                                                  *)
(***************************************************************************)
P(c) == [p |-> c]

Lit(v) == [lit |-> v]

WS == P(" ")

IsLit(t) == "lit" \in DOMAIN t

IsP(t, c) == (~IsLit(t)) /\ t.p = c

RECURSIVE Flatten(_)
Flatten(ss) == IF ss = <<>> THEN <<>> ELSE Head(ss) \o Flatten(Tail(ss))

(***************************************************************************)
(* serde_json::from_slice::<Value>: a recursive-descent parse; the whole   *)
(* input must be one value.                                                *)
(***************************************************************************)
Fail == [ok |-> FALSE]

SkipWs(ts) == SelectSeq(ts, LAMBDA t : t # WS)

RECURSIVE ParseValue(_), ParseMembers(_, _), ParseElems(_, _)
ParseValue(ts) ==
    IF ts = <<>> THEN Fail
    ELSE LET h == Head(ts) IN
         IF IsLit(h) THEN [ok |-> TRUE, v |-> h.lit, rest |-> Tail(ts)]
         ELSE IF h.p = "{" THEN
             IF Len(ts) >= 2 /\ IsP(ts[2], "}")
             THEN [ok |-> TRUE, v |-> Obj(EmptyMap), rest |-> Tail(Tail(ts))]
             ELSE ParseMembers(Tail(ts), EmptyMap)
         ELSE IF h.p = "[" THEN
             IF Len(ts) >= 2 /\ IsP(ts[2], "]")
             THEN [ok |-> TRUE, v |-> Arr(<<>>), rest |-> Tail(Tail(ts))]
             ELSE ParseElems(Tail(ts), <<>>)
         ELSE Fail

\* ts starts at a member's key; acc holds the members read so far (a
\* repeated key overwrites, as BTreeMap::insert does).
ParseMembers(ts, acc) ==
    IF Len(ts) < 3 THEN Fail
    ELSE IF ~(IsLit(ts[1]) /\ ts[1].lit.k = "str" /\ "s" \in DOMAIN ts[1].lit) THEN Fail
    ELSE IF ~IsP(ts[2], ":") THEN Fail
    ELSE LET r == ParseValue(SubSeq(ts, 3, Len(ts))) IN
         IF ~r.ok THEN Fail
         ELSE IF r.rest = <<>> THEN Fail
         ELSE LET acc2 == MapInsert(acc, ts[1].lit.s, r.v) IN
              IF IsP(Head(r.rest), ",") THEN ParseMembers(Tail(r.rest), acc2)
              ELSE IF IsP(Head(r.rest), "}")
                   THEN [ok |-> TRUE, v |-> Obj(acc2), rest |-> Tail(r.rest)]
                   ELSE Fail

ParseElems(ts, acc) ==
    LET r == ParseValue(ts) IN
    IF ~r.ok THEN Fail
    ELSE IF r.rest = <<>> THEN Fail
    ELSE LET acc2 == Append(acc, r.v) IN
         IF IsP(Head(r.rest), ",") THEN ParseElems(Tail(r.rest), acc2)
         ELSE IF IsP(Head(r.rest), "]")
              THEN [ok |-> TRUE, v |-> Arr(acc2), rest |-> Tail(r.rest)]
              ELSE Fail

\* Result<Value, Error>: Some(value) or None for the error.
from_slice_value(bytes) ==
    LET r == ParseValue(SkipWs(bytes)) IN
    IF r.ok /\ r.rest = <<>> THEN Some(r.v) ELSE None

(***************************************************************************)
(* serde_json::to_vec: objects are written in BTreeMap order, with no      *)
(* whitespace.                                                             *)
(***************************************************************************)
RECURSIVE to_vec(_)
to_vec(v) ==
    IF v.k = "obj" THEN
        LET ks == SortedKeys(DOMAIN v.m)
            member(i) == (IF i > 1 THEN <<P(",")>> ELSE <<>>)
                         \o <<Lit(Str(ks[i])), P(":")>> \o to_vec(v.m[ks[i]])
        IN <<P("{")>> \o Flatten([i \in 1..Len(ks) |-> member(i)]) \o <<P("}")>>
    ELSE IF v.k = "arr" THEN
        LET elem(i) == (IF i > 1 THEN <<P(",")>> ELSE <<>>) \o to_vec(v.a[i])
        IN <<P("[")>> \o Flatten([i \in 1..Len(v.a) |-> elem(i)]) \o <<P("]")>>
    ELSE <<Lit(v)>>

\* indolentjson::compact::compact: drops the whitespace outside strings.
compact_json(bytes) == SelectSeq(bytes, LAMBDA t : t # WS)

(***************************************************************************)
(* ser::encode_canonically and ser::canonicalize                           *)
(***************************************************************************)
\* Faulty variant: the reserved keys are removed at every nesting level.
RECURSIVE StripDeep(_)
StripDeep(val) ==
    IF val.k = "obj"
    THEN Obj([x \in (DOMAIN val.m) \ {"signatures", "unsigned"} |-> StripDeep(val.m[x])])
    ELSE IF val.k = "arr" THEN Arr([i \in 1..Len(val.a) |-> StripDeep(val.a[i])])
    ELSE val

StripReserved(val) ==
    IF val.k = "obj"
    THEN Obj(MapRemove(MapRemove(val.m, "signatures"), "unsigned"))
    ELSE val

encode_canonically(st) == compact_json(to_vec(StripReserved(st)))

\* Result<Vec<u8>, Error>
canonicalize(bytes) ==
    LET val == from_slice_value(bytes) IN
    IF IsSome(val) THEN Some(encode_canonically(Unwrap(val))) ELSE None

(***************************************************************************)
(* ED25519 (sodiumoxide::crypto::sign), idealised: a signature names the   *)
(* secret key and the message it was made from; an altered signature       *)
(* (alt) verifies under no key.                                            *)
(***************************************************************************)
SIGNATUREBYTES == 64

Seeds == {"seed1", "seed2"}

\* sign::keypair_from_seed
keypair_from_seed(seed) ==
    IF seed = "seed1" THEN [public |-> "pk1", secret |-> "sk1"]
    ELSE [public |-> "pk2", secret |-> "sk2"]

SecretKeys == {keypair_from_seed(s).secret : s \in Seeds}

\* "pk3" is a public key whose secret key nobody holds (keys.rs, key3).
PublicKeys == {keypair_from_seed(s).public : s \in Seeds} \cup {"pk3"}

sign_detached(m, sk) == [signer |-> sk, msg |-> m, alt |-> FALSE]

verify_detached(sig, m, pk) ==
    /\ ~sig.alt
    /\ \E s \in Seeds : /\ keypair_from_seed(s).secret = sig.signer
                        /\ keypair_from_seed(s).public = pk
    /\ sig.msg = m

\* One byte of the signature flipped.
Alter(sig) == [sig EXCEPT !.alt = TRUE]

\* The raw bytes of a signature, and a truncation of them.
SigBytes(sig) == [len |-> SIGNATUREBYTES, sig |-> sig]

ShortBytes(sig) == [len |-> SIGNATUREBYTES - 1, sig |-> sig]

\* sign::Signature::from_slice
Signature_from_slice(bytes) ==
    IF bytes.len = SIGNATUREBYTES THEN Some(bytes.sig) ELSE None

(***************************************************************************)
(* rustc_serialize::base64                                                 *)
(***************************************************************************)
\* bytes.to_base64(UNPADDED_BASE64)
to_base64(bytes) == B64Str(bytes, FALSE)

\* str.from_base64(): takes no Config; trailing '=' padding is accepted.
from_base64(str) == IF "b64" \in DOMAIN str THEN Some(str.b64) ELSE None

(***************************************************************************)
(* ser::signatures::Base64Signature                                        *)
(***************************************************************************)
Base64Signature_serialize(sig) == to_base64(SigBytes(sig))

\* Faulty variant: the decoded length is not checked.
Base64Signature_deserialize_any_length(v) ==
    IF v.k # "str" THEN None
    ELSE LET slice == from_base64(v) IN
         IF IsSome(slice) THEN Some(Unwrap(slice).sig) ELSE None

Base64Signature_deserialize(v) ==
    IF v.k # "str" THEN None
    ELSE LET slice == from_base64(v) IN
         IF IsSome(slice) THEN Signature_from_slice(Unwrap(slice)) ELSE None

(***************************************************************************)
(* signed::Signatures / SignaturesMut for                                  *)
(* BTreeMap<String, BTreeMap<String, S>>                                   *)
(***************************************************************************)
get_signature(c, entity, key_id) ==
    IF entity \in DOMAIN c /\ key_id \in DOMAIN c[entity]
    THEN Some(c[entity][key_id]) ELSE None

\* self.iter() filtered to the entity, then each inner map's iter().
get_signatures_for_entity(c, entity) ==
    LET matching == SelectSeq(SortedKeys(DOMAIN c), LAMBDA d : d = entity)
        pairs(d) == LET ks == SortedKeys(DOMAIN c[d])
                    IN [i \in 1..Len(ks) |-> <<ks[i], c[d][ks[i]]>>]
    IN Flatten([i \in 1..Len(matching) |-> pairs(matching[i])])

\* Faulty variant: the enumeration goes by key-id first, then by entity.
get_signatures_by_key_id(c) ==
    LET ns == SortedKeys(UNION {DOMAIN c[e] : e \in DOMAIN c})
        triples(n) == LET es == SelectSeq(SortedKeys(DOMAIN c), LAMBDA e : n \in DOMAIN c[e])
                      IN [i \in 1..Len(es) |-> <<es[i], n, c[es[i]][n]>>]
    IN Flatten([i \in 1..Len(ns) |-> triples(ns[i])])

\* self.iter().flat_map(|(e, sigs)| sigs.iter().map(|(n, sig)| (e, n, sig)))
get_signatures(c) ==
    LET es == SortedKeys(DOMAIN c)
        triples(e) == LET ks == SortedKeys(DOMAIN c[e])
                      IN [i \in 1..Len(ks) |-> <<e, ks[i], c[e][ks[i]]>>]
    IN Flatten([i \in 1..Len(es) |-> triples(es[i])])

\* self.keys()
get_entities(c) == SortedKeys(DOMAIN c)

\* Faulty variant: the entity's map is replaced, not extended.
add_signature_replaces_entity(c, entity, key_id, sig) ==
    MapInsert(c, entity, MapInsert(EmptyMap, key_id, sig))

add_signature(c, entity, key_id, sig) ==
    LET inner == IF entity \in DOMAIN c THEN c[entity] ELSE EmptyMap
    IN MapInsert(c, entity, MapInsert(inner, key_id, sig))

clear(c) == EmptyMap

\* The container as a JSON value and back (the derived BTreeMap impls).
SigMapToValue(c) ==
    Obj([e \in DOMAIN c |->
            Obj([n \in DOMAIN c[e] |-> Base64Signature_serialize(c[e][n])])])

SigMapFromValue(v) ==
    IF v.k # "obj" THEN None
    ELSE IF \A e \in DOMAIN v.m :
              /\ v.m[e].k = "obj"
              /\ \A n \in DOMAIN v.m[e].m : IsSome(Base64Signature_deserialize(v.m[e].m[n]))
    THEN Some([e \in DOMAIN v.m |->
                 [n \in DOMAIN v.m[e].m |-> Unwrap(Base64Signature_deserialize(v.m[e].m[n]))]])
    ELSE None

(***************************************************************************)
(* signed::SimpleSigned                                                    *)
(***************************************************************************)
SimpleSigned(c) == [ty |-> "SimpleSigned", signatures |-> c]

\* serde_json::from_value::<SimpleSigned>: visit_map for an object (other
\* fields ignored; a missing `signatures` is the empty map, as
\* from_slice(b"{}") in keys.rs shows), visit_seq for an array.
SimpleSigned_deserialize(val) ==
    IF val.k = "obj" THEN
        IF "signatures" \in DOMAIN val.m
        THEN LET sigs == SigMapFromValue(val.m["signatures"]) IN
             IF IsSome(sigs) THEN Some(SimpleSigned(Unwrap(sigs))) ELSE None
        ELSE Some(SimpleSigned(EmptyMap))
    ELSE IF val.k = "arr" THEN
        IF Len(val.a) # 1 THEN None
        ELSE LET sigs == SigMapFromValue(val.a[1]) IN
             IF IsSome(sigs) THEN Some(SimpleSigned(Unwrap(sigs))) ELSE None
    ELSE None

(***************************************************************************)
(* A caller's signable type for FrozenStruct::wrap: named content fields,  *)
(* a signature container and an optional unsigned value; AsCanonical is    *)
(* ser::encode_canonically of the whole value.                             *)
(***************************************************************************)
Doc(content, c, u) == [ty |-> "Doc", content |-> content, signatures |-> c, unsigned |-> u]

DocToValue(d) ==
    LET m1 == MapInsert(d.content, "signatures", SigMapToValue(d.signatures))
    IN Obj(IF IsSome(d.unsigned) THEN MapInsert(m1, "unsigned", Unwrap(d.unsigned)) ELSE m1)

\* Signed::signatures / SignedMut::signatures_mut of the live value
T_signatures(t) == t.signatures

T_with_signatures(t, c) == [t EXCEPT !.signatures = c]

\* AsCanonical::as_canonical of the live value
T_as_canonical(t) == encode_canonically(DocToValue(t))

\* GetUnsigned::get_unsigned
T_get_unsigned(t) == t.unsigned

(***************************************************************************)
(* frozen::FrozenStruct                                                    *)
(***************************************************************************)
FrozenStruct(parsed, serialized, canonical, unsigned) ==
    [parsed |-> parsed, serialized |-> serialized,
     canonical |-> canonical, unsigned |-> unsigned]

\* Faulty variant: the signatures the value carried are kept.
wrap_keeps_signatures(wrapped) ==
    FrozenStruct(wrapped, None, T_as_canonical(wrapped), T_get_unsigned(wrapped))

wrap(wrapped) ==
    LET w == T_with_signatures(wrapped, clear(T_signatures(wrapped)))
    IN FrozenStruct(w, None, T_as_canonical(w), T_get_unsigned(w))

\* serde_json::from_value::<U> for the side-value type U
UTypes == {"Value", "String"}

from_value_U(utype, val) ==
    IF utype = "Value" THEN Some(val)
    ELSE IF val.k = "str" THEN Some(val) ELSE None

\* Faulty variant: the canonical bytes are taken from the decoded live value.
from_slice_canonical_of_parsed(bytes, utype) ==
    LET v0 == from_slice_value(bytes) IN
    IF ~IsSome(v0) THEN None
    ELSE LET val == Unwrap(v0)
             hasU == val.k = "obj" /\ "unsigned" \in DOMAIN val.m
             u == IF hasU THEN from_value_U(utype, val.m["unsigned"]) ELSE None
             rest == IF hasU THEN Obj(MapRemove(val.m, "unsigned")) ELSE val
             parsed == SimpleSigned_deserialize(rest)
         IN IF hasU /\ ~IsSome(u) THEN None
            ELSE IF ~IsSome(parsed) THEN None
            ELSE Some(FrozenStruct(Unwrap(parsed), Some(bytes),
                      encode_canonically(Obj([x \in {"signatures"} |->
                                               SigMapToValue(Unwrap(parsed).signatures)])), u))

\* Result<FrozenStruct, Error>: Some(object), or None for the error.
from_slice(bytes, utype) ==
    LET v0 == from_slice_value(bytes) IN
    IF ~IsSome(v0) THEN None
    ELSE LET val == Unwrap(v0)
             hasU == val.k = "obj" /\ "unsigned" \in DOMAIN val.m
             u == IF hasU THEN from_value_U(utype, val.m["unsigned"]) ELSE None
             rest == IF hasU THEN Obj(MapRemove(val.m, "unsigned")) ELSE val
             parsed == SimpleSigned_deserialize(rest)
             canonical == canonicalize(bytes)
         IN IF hasU /\ ~IsSome(u) THEN None
            ELSE IF ~IsSome(parsed) THEN None
            ELSE IF ~IsSome(canonical) THEN None
            ELSE Some(FrozenStruct(Unwrap(parsed), Some(bytes), Unwrap(canonical), u))

\* Signed for FrozenStruct
signatures(f) == T_signatures(f.parsed)

\* Faulty variant: the wrong buffer is dropped.
signatures_mut_drops_canonical(f) == [f EXCEPT !.canonical = <<>>]

\* Faulty variant: the cache is kept.
signatures_mut_keeps_cache(f) == f

\* SignedMut for FrozenStruct: the cache is dropped, then the live
\* container is handed out; with_signatures is the caller's write to it.
signatures_mut(f) == [f EXCEPT !.serialized = None]

with_signatures(f, c) == [f EXCEPT !.parsed = T_with_signatures(@, c)]

\* AsCanonical for FrozenStruct
as_canonical(f) == f.canonical

\* Deref for FrozenStruct
deref(f) == f.parsed

(***************************************************************************)
(* keys::SigningKeyPair, keys::VerifyKey and the named-key operations      *)
(***************************************************************************)
SigningKeyPair_from_seed(seed, entity, key_id) ==
    LET kp == keypair_from_seed(seed)
    IN [public |-> kp.public, secret |-> kp.secret, key_id |-> key_id, entity |-> entity]

VerifyKey(public, entity, key_id) == [public |-> public, key_id |-> key_id, entity |-> entity]

from_signing_key(signing_key) ==
    VerifyKey(signing_key.public, signing_key.entity, signing_key.key_id)

\* Faulty variant: signs the cached full serialization when there is one.
sign_signs_serialized(key, obj) ==
    LET sig == sign_detached(IF IsSome(obj.serialized) THEN Unwrap(obj.serialized)
                             ELSE as_canonical(obj), key.secret)
        o1 == signatures_mut(obj)
    IN with_signatures(o1, add_signature(signatures(o1), key.entity, key.key_id, sig))

\* Faulty variant: the signature is put into the live value directly, not
\* through signatures_mut.
sign_bypasses_signatures_mut(key, obj) ==
    LET sig == sign_detached(as_canonical(obj), key.secret)
    IN with_signatures(obj, add_signature(signatures(obj), key.entity, key.key_id, sig))

\* NamedSecretKey::sign
sign(key, obj) ==
    LET sig == sign_detached(as_canonical(obj), key.secret)
        o1 == signatures_mut(obj)
    IN with_signatures(o1, add_signature(signatures(o1), key.entity, key.key_id, sig))

\* Faulty variant: an absent signature is reported as Invalid.
verify_absent_invalid(key, obj) ==
    LET s == get_signature(signatures(obj), key.entity, key.key_id) IN
    IF IsSome(s) /\ verify_detached(Unwrap(s), as_canonical(obj), key.public)
    THEN "Valid" ELSE "Invalid"

\* Faulty variant: a signature in the slot is taken as Valid without being checked.
verify_presence_only(key, obj) ==
    IF IsSome(get_signature(signatures(obj), key.entity, key.key_id))
    THEN "Valid" ELSE "Unsigned"

\* NamedPublicKey::verify
verify(key, obj) ==
    LET s == get_signature(signatures(obj), key.entity, key.key_id) IN
    IF IsSome(s)
    THEN IF verify_detached(Unwrap(s), as_canonical(obj), key.public)
         THEN "Valid" ELSE "Invalid"
    ELSE "Unsigned"

(***************************************************************************)
(* Inputs                                                                  *)
(***************************************************************************)
\* Longest sequence of signatures_mut calls explored on one object.
MaxMut == 2

Entities == {"e1", "e2"}

KeyIds == {"k1", "k2"}

SigningKeys ==
    { SigningKeyPair_from_seed("seed1", "e1", "k1"),
      SigningKeyPair_from_seed("seed2", "e1", "k1"),
      SigningKeyPair_from_seed("seed1", "e2", "k2") }

AllVerifyKeys == {VerifyKey(pk, e, n) : pk \in PublicKeys, e \in Entities, n \in KeyIds}

\* The keys the Verify action is called with.
VerifyKeys ==
    { VerifyKey("pk1", "e1", "k1"), VerifyKey("pk3", "e1", "k1"), VerifyKey("pk1", "e2", "k2") }

\* Document text: an object's members in the order written.
Member(key, toks) == [key |-> key, toks |-> toks]

Sep(ws) == IF ws THEN <<WS>> ELSE <<>>

RenderObj(members, ws) ==
    LET member(i) == (IF i > 1 THEN <<P(",")>> \o Sep(ws) ELSE <<>>)
                     \o <<Lit(Str(members[i].key)), P(":")>> \o Sep(ws) \o members[i].toks
    IN <<P("{")>> \o Sep(ws) \o Flatten([i \in 1..Len(members) |-> member(i)])
       \o Sep(ws) \o <<P("}")>>

Reverse(q) == [i \in 1..Len(q) |-> q[Len(q) + 1 - i]]

\* {"unsigned":1,"signatures":[2,1]}: reserved names below the top level.
NestedToks ==
    RenderObj(<<Member("unsigned", <<Lit(Num(1))>>),
                Member("signatures", <<P("["), Lit(Num(2)), P(","), Lit(Num(1)), P("]")>>)>>, FALSE)

Bodies ==
    { <<>>,
      <<Member("b", NestedToks), Member("a", <<Lit(Str("x"))>>)>> }

OtherMsg == <<P("{"), Lit(Str("a")), P(":"), Lit(Num(0)), P("}")>>

SigLit(sig) == <<Lit(Base64Signature_serialize(sig))>>

SigOpts == {"none", "empty", "valid", "padded", "two", "emptyent",
            "short", "notb64", "notstr", "notmap"}

\* The text of the `signatures` member for a document whose canonical
\* bytes are c.
SigToks(opt, c) ==
    LET one(toks) == RenderObj(<<Member("e1", RenderObj(<<Member("k1", toks)>>, FALSE))>>, FALSE)
    IN CASE opt = "empty" -> RenderObj(<<>>, FALSE)
         [] opt = "valid" -> one(SigLit(sign_detached(c, "sk1")))
         [] opt = "padded" -> one(<<Lit(B64Str(SigBytes(sign_detached(c, "sk2")), TRUE))>>)
         [] opt = "two" ->
              RenderObj(<<Member("e2", RenderObj(<<Member("k1", SigLit(sign_detached(c, "sk1")))>>, FALSE)),
                          Member("e1", RenderObj(<<Member("k2", SigLit(sign_detached(OtherMsg, "sk1"))),
                                                   Member("k1", SigLit(Alter(sign_detached(c, "sk1"))))>>,
                                                 FALSE))>>, FALSE)
         [] opt = "emptyent" -> RenderObj(<<Member("e1", RenderObj(<<>>, FALSE))>>, FALSE)
         [] opt = "short" -> one(<<Lit(B64Str(ShortBytes(sign_detached(c, "sk1")), FALSE))>>)
         [] opt = "notb64" -> one(<<Lit(Str("!"))>>)
         [] opt = "notstr" -> one(<<Lit(Num(1))>>)
         [] opt = "notmap" -> <<Lit(Num(5))>>

UnsOpts == {"none", "num", "str"}

UnsToks(opt) == IF opt = "num" THEN <<Lit(Num(7))>> ELSE <<Lit(Str("u"))>>

DocChoices == [body : Bodies, sig : SigOpts, uns : UnsOpts, rev : BOOLEAN]

\* The document text of a choice; a reversed document is also written
\* with whitespace.
RenderDoc(d) ==
    LET c == Unwrap(canonicalize(RenderObj(d.body, FALSE)))
        ms == (IF d.sig = "none" THEN <<>> ELSE <<Member("signatures", SigToks(d.sig, c))>>)
              \o d.body
              \o (IF d.uns = "none" THEN <<>> ELSE <<Member("unsigned", UnsToks(d.uns))>>)
    IN RenderObj(IF d.rev THEN Reverse(ms) ELSE ms, d.rev)

ObjectDocs == {RenderDoc(d) : d \in DocChoices}

\* Top-level values that are not objects.
OtherDocs ==
    { <<Lit(Num(1))>>,
      <<Lit(Str("signatures"))>>,
      <<P("["), P("]")>>,
      <<P("[")>> \o SigToks("valid", OtherMsg) \o <<P("]")>>,
      <<P("["), WS>> \o SigToks("empty", OtherMsg) \o <<P(","), Lit(Str("unsigned")), P("]")>> }

\* Bytes that are not JSON.
Malformed ==
    { <<>>,
      <<P("{")>>,
      <<P("{"), Lit(Str("a")), P("}")>>,
      <<P("{"), Lit(Str("a")), P(":"), Lit(Num(1)), P(","), P("}")>>,
      <<P("{"), P("}"), P("}")>>,
      <<Lit(Num(1)), WS, Lit(Num(1))>> }

\* Documents that differ from one another in the order of the keys of a
\* nested object, or in the order of an array's elements.
PermutedDocs ==
    LET num(n) == <<Lit(Num(n))>>
        arr21 == <<P("["), Lit(Num(2)), P(","), Lit(Num(1)), P("]")>>
        arr12 == <<P("["), Lit(Num(1)), P(","), Lit(Num(2)), P("]")>>
        nested(a, ws) == RenderObj(<<Member("signatures", a), Member("unsigned", num(1))>>, ws)
        ab(ws) == RenderObj(<<Member("a", RenderObj(<<Member("k1", num(2)), Member("k2", num(1))>>, ws)),
                              Member("b", num(1))>>, ws)
        ba(ws) == RenderObj(<<Member("b", num(1)),
                              Member("a", RenderObj(<<Member("k2", num(1)), Member("k1", num(2))>>, ws))>>, ws)
    IN { RenderObj(<<Member("a", <<Lit(Str("x"))>>), Member("unsigned", arr12),
                     Member("b", nested(arr21, TRUE))>>, TRUE),
         RenderObj(<<Member("a", <<Lit(Str("x"))>>), Member("b", nested(arr12, FALSE))>>, FALSE),
         <<P("[")>> \o ab(FALSE) \o <<P(","), Lit(Num(3)), P("]")>>,
         <<P("["), WS>> \o ba(TRUE) \o <<WS, P(","), Lit(Num(3)), P("]")>>,
         <<P("["), Lit(Num(3)), P(",")>> \o ab(FALSE) \o <<P("]")>> }

Docs == ObjectDocs \cup OtherDocs \cup PermutedDocs \cup Malformed

\* The bytes FrozenStruct::from_slice is called with: the object documents
\* written out of key order and with whitespace, and everything else.
SliceDocs == {RenderDoc(d) : d \in {x \in DocChoices : x.rev}} \cup OtherDocs \cup Malformed

\* Values handed to encode_canonically directly.
Values == {Unwrap(from_slice_value(b)) : b \in ObjectDocs \cup OtherDocs}

WrapInputs ==
    { Doc(content, c, u) :
        content \in { EmptyMap, [x \in {"a"} |-> Num(1)] },
        c \in { EmptyMap,
                add_signature(EmptyMap, "e1", "k1", sign_detached(OtherMsg, "sk1")),
                add_signature(add_signature(EmptyMap, "e1", "k1", sign_detached(<<P("{"), P("}")>>, "sk1")),
                              "e2", "k2", sign_detached(OtherMsg, "sk2")) },
        u \in { None, Some(Num(7)) } }

\* Signatures a caller may put into a slot by hand.
SigPool(f) ==
    { Alter(sign_detached(as_canonical(f), "sk1")),
      sign_detached(OtherMsg, "sk1") }

Init ==
    /\ phase = "new"
    /\ input = None
    /\ frozen = None
    /\ canon0 = None
    /\ muts = 0
    /\ last = None

\* FrozenStruct::wrap(value)
Wrap(value) ==
    /\ phase = "new"
    /\ phase' = "frozen"
    /\ input' = Some([fn |-> "wrap", value |-> value])
    /\ frozen' = Some(wrap(value))
    /\ canon0' = Some(as_canonical(wrap(value)))
    /\ last' = Some([op |-> "wrap"])
    /\ UNCHANGED muts

\* FrozenStruct::<SimpleSigned, U>::from_slice(bytes)
FromSlice(bytes, utype) ==
    /\ phase = "new"
    /\ LET r == from_slice(bytes, utype) IN
       /\ phase' = IF IsSome(r) THEN "frozen" ELSE "failed"
       /\ frozen' = r
       /\ canon0' = IF IsSome(r) THEN Some(as_canonical(Unwrap(r))) ELSE None
       /\ last' = Some([op |-> "from_slice", ok |-> IsSome(r)])
    /\ input' = Some([fn |-> "from_slice", bytes |-> bytes, utype |-> utype])
    /\ UNCHANGED muts

\* key.sign(&mut frozen)
Sign(key) ==
    /\ phase = "frozen"
    /\ muts < MaxMut
    /\ frozen' = Some(sign(key, Unwrap(frozen)))
    /\ muts' = muts + 1
    /\ last' = Some([op |-> "sign", key |-> key])
    /\ UNCHANGED <<phase, input, canon0>>

\* frozen.signatures_mut().add_signature(entity, key_id, sig)
AddSignature(entity, key_id, sig) ==
    /\ phase = "frozen"
    /\ muts < MaxMut
    /\ LET o1 == signatures_mut(Unwrap(frozen)) IN
       frozen' = Some(with_signatures(o1, add_signature(signatures(o1), entity, key_id, sig)))
    /\ muts' = muts + 1
    /\ last' = Some([op |-> "add_signature", entity |-> entity, key_id |-> key_id, sig |-> sig])
    /\ UNCHANGED <<phase, input, canon0>>

\* frozen.signatures_mut().clear()
Clear ==
    /\ phase = "frozen"
    /\ muts < MaxMut
    /\ LET o1 == signatures_mut(Unwrap(frozen)) IN
       frozen' = Some(with_signatures(o1, clear(signatures(o1))))
    /\ muts' = muts + 1
    /\ last' = Some([op |-> "clear"])
    /\ UNCHANGED <<phase, input, canon0>>

\* key.verify(&frozen)
Verify(key) ==
    /\ phase = "frozen"
    /\ last' = Some([op |-> "verify", key |-> key, res |-> verify(key, Unwrap(frozen))])
    /\ UNCHANGED <<phase, input, frozen, canon0, muts>>

\* frozen.as_canonical()
AsCanonical ==
    /\ phase = "frozen"
    /\ last' = Some([op |-> "as_canonical", res |-> as_canonical(Unwrap(frozen))])
    /\ UNCHANGED <<phase, input, frozen, canon0, muts>>

\* frozen.signatures().get_signature(entity, key_id)
GetSignature(entity, key_id) ==
    /\ phase = "frozen"
    /\ last' = Some([op |-> "get_signature", entity |-> entity, key_id |-> key_id,
                     res |-> get_signature(signatures(Unwrap(frozen)), entity, key_id)])
    /\ UNCHANGED <<phase, input, frozen, canon0, muts>>

\* frozen.signatures().get_signatures().collect_vec()
GetSignatures ==
    /\ phase = "frozen"
    /\ last' = Some([op |-> "get_signatures", res |-> get_signatures(signatures(Unwrap(frozen)))])
    /\ UNCHANGED <<phase, input, frozen, canon0, muts>>

\* frozen.signatures().get_entities().collect_vec()
GetEntities ==
    /\ phase = "frozen"
    /\ last' = Some([op |-> "get_entities", res |-> get_entities(signatures(Unwrap(frozen)))])
    /\ UNCHANGED <<phase, input, frozen, canon0, muts>>

\* frozen.signatures().get_signatures_for_entity(entity).collect_vec()
GetSignaturesForEntity(entity) ==
    /\ phase = "frozen"
    /\ last' = Some([op |-> "get_signatures_for_entity", entity |-> entity,
                     res |-> get_signatures_for_entity(signatures(Unwrap(frozen)), entity)])
    /\ UNCHANGED <<phase, input, frozen, canon0, muts>>

\* &*frozen
Deref ==
    /\ phase = "frozen"
    /\ last' = Some([op |-> "deref", res |-> deref(Unwrap(frozen))])
    /\ UNCHANGED <<phase, input, frozen, canon0, muts>>

\* ser::canonicalize(bytes)
Canonicalize(bytes) ==
    /\ phase = "new"
    /\ phase' = "called"
    /\ last' = Some([op |-> "canonicalize", bytes |-> bytes, res |-> canonicalize(bytes)])
    /\ UNCHANGED <<input, frozen, canon0, muts>>

\* ser::encode_canonically(&value)
EncodeCanonically(value) ==
    /\ phase = "new"
    /\ phase' = "called"
    /\ last' = Some([op |-> "encode_canonically", value |-> value, res |-> encode_canonically(value)])
    /\ UNCHANGED <<input, frozen, canon0, muts>>

Next ==
    \/ \E value \in WrapInputs : Wrap(value)
    \/ \E bytes \in SliceDocs, utype \in UTypes : FromSlice(bytes, utype)
    \/ \E key \in SigningKeys : Sign(key)
    \/ /\ phase = "frozen"
       /\ \E entity \in Entities, key_id \in KeyIds :
             \E sig \in SigPool(Unwrap(frozen)) : AddSignature(entity, key_id, sig)
    \/ Clear
    \/ \E key \in VerifyKeys : Verify(key)
    \/ AsCanonical
    \/ \E key \in VerifyKeys : GetSignature(key.entity, key.key_id)
    \/ GetSignatures
    \/ GetEntities
    \/ \E entity \in Entities : GetSignaturesForEntity(entity)
    \/ Deref
    \/ \E bytes \in Docs : Canonicalize(bytes)
    \/ \E value \in Values : EncodeCanonically(value)

Spec == Init /\ [][Next]_vars
(***************************************************************************)
(* Properties                                                              *)
(***************************************************************************)
Frozen == Unwrap(frozen)

Last == Unwrap(last)

IsFrozen == phase = "frozen"

LastOp(op) == IsSome(last) /\ Last.op = op

MutOps == {"sign", "add_signature", "clear"}

\* The slot (entity, key_id) of container c holds a signature.
Present(c, entity, key_id) == entity \in DOMAIN c /\ key_id \in DOMAIN c[entity]

\* C1: whatever sign, add_signature and clear calls were made through
\* signatures_mut, as_canonical returns the bytes it returned right after
\* construction (by wrap or by from_slice).
C1_CanonicalStable ==
    IsFrozen => as_canonical(Frozen) = Unwrap(canon0)

C1_Witness ==
    /\ IsFrozen
    /\ muts >= 2
    /\ LastOp("sign")
    /\ Unwrap(input).fn = "from_slice"
    /\ DOMAIN signatures(Frozen) = Entities
    /\ as_canonical(Frozen) # <<P("{"), P("}")>>

\* C2: right after sign(k, m), slot (k.entity, k.key_id) holds the
\* signature of m's canonical bytes under k's secret key, and
\* verify(VerifyKey::from_signing_key(k), m) is Valid.
C2_SignThenVerifyValid ==
    (IsFrozen /\ LastOp("sign")) =>
        /\ Present(signatures(Frozen), Last.key.entity, Last.key.key_id)
        /\ signatures(Frozen)[Last.key.entity][Last.key.key_id]
              = sign_detached(as_canonical(Frozen), Last.key.secret)
        /\ verify(from_signing_key(Last.key), Frozen) = "Valid"

\* The slot held another key's signature before this sign call, and the
\* object was parsed from bytes that differ from its canonical bytes.
C2_Witness ==
    /\ IsFrozen
    /\ LastOp("sign")
    /\ Last.key.secret = "sk1" /\ Last.key.entity = "e1"
    /\ muts = 1
    /\ Unwrap(input).fn = "from_slice"
    /\ Unwrap(input).bytes \in {RenderDoc(d) : d \in {x \in DocChoices : x.sig = "padded" /\ x.uns = "num"}}
    /\ verify(VerifyKey("pk1", "e1", "k1"), Frozen) = "Valid"

\* C3: verify is Unsigned exactly when the container has no entry at the
\* key's (entity, key_id), whatever the other slots hold.
C3_UnsignedIffAbsent ==
    IsFrozen =>
        /\ \A key \in AllVerifyKeys :
              (verify(key, Frozen) = "Unsigned")
                 <=> ~Present(signatures(Frozen), key.entity, key.key_id)
        /\ LastOp("verify") =>
              ((Last.res = "Unsigned")
                 <=> ~Present(signatures(Frozen), Last.key.entity, Last.key.key_id))

\* verify said Unsigned for a key whose entity and key-id both occur in
\* the container, in other slots.
C3_Witness ==
    /\ IsFrozen
    /\ LastOp("verify")
    /\ Last.res = "Unsigned"
    /\ Last.key.entity = "e1" /\ Last.key.key_id = "k1"
    /\ Present(signatures(Frozen), "e1", "k2")
    /\ Present(signatures(Frozen), "e2", "k1")

\* The signatures the holder of a secret key for `public` makes over m.
GenuineSigs(public, m) ==
    {sign_detached(m, keypair_from_seed(s).secret) :
        s \in {x \in Seeds : keypair_from_seed(x).public = public}}

\* C4: when the signature in the key's slot was not made over the object's
\* canonical bytes by the secret key of the verifying public key, verify
\* is Invalid.
C4_TamperInvalid ==
    IsFrozen =>
        \A key \in AllVerifyKeys :
            (/\ Present(signatures(Frozen), key.entity, key.key_id)
             /\ signatures(Frozen)[key.entity][key.key_id]
                   \notin GenuineSigs(key.public, as_canonical(Frozen)))
            => verify(key, Frozen) = "Invalid"

\* A signature by another secret key over the same canonical bytes sits in
\* the slot, the cache holds other bytes, and verify said Invalid.
C4_Witness ==
    /\ IsFrozen
    /\ LastOp("verify")
    /\ Last.res = "Invalid"
    /\ Last.key = VerifyKey("pk1", "e1", "k1")
    /\ signatures(Frozen)["e1"]["k1"] = sign_detached(as_canonical(Frozen), "sk2")
    /\ IsSome(Frozen.serialized)

\* C5: a step that goes through signatures_mut (sign, add_signature,
\* clear) leaves the cache absent and the canonical bytes and the unsigned
\* value as they were.
C5_MutationDropsCache ==
    [][(IsFrozen /\ IsSome(last') /\ Unwrap(last').op \in MutOps) =>
          /\ Unwrap(frozen').serialized = None
          /\ Unwrap(frozen').canonical = Frozen.canonical
          /\ Unwrap(frozen').unsigned = Frozen.unsigned]_vars

\* A from_slice object with an unsigned value, right after its first
\* mutation: the cache it was built with is gone.
C5_Witness ==
    /\ IsFrozen
    /\ LastOp("sign")
    /\ muts = 1
    /\ Unwrap(input).fn = "from_slice"
    /\ IsSome(Frozen.unsigned)
    /\ Frozen.serialized = None
\* The full serialization of f: its canonical content with the current
\* signatures and the unsigned value put back.
FullSerialization(f) ==
    LET val == Unwrap(from_slice_value(f.canonical)) IN
    IF val.k # "obj" THEN f.canonical
    ELSE LET m1 == MapInsert(val.m, "signatures", SigMapToValue(signatures(f)))
             m2 == IF IsSome(f.unsigned) THEN MapInsert(m1, "unsigned", Unwrap(f.unsigned)) ELSE m1
         IN to_vec(Obj(m2))

\* C6: the full serialization is computed lazily: whenever the cache is
\* absent (after wrap, after any signature mutation) a read regenerates
\* it from the canonical content, the current signatures and the unsigned
\* value and stores it.
C6_LazySerialization ==
    (IsFrozen /\ Frozen.serialized = None) =>
        ENABLED (Next /\ Unwrap(frozen').serialized = Some(FullSerialization(Frozen)))

\* The document choices whose text is `bytes`.
DocsOf(bytes) == {d \in DocChoices : RenderDoc(d) = bytes}

\* What the documents are, written out by hand: the canonical bytes of each
\* body, the container of each `signatures` text, each `unsigned` value.
ExpectedCanon(body) ==
    IF body = <<>> THEN <<P("{"), P("}")>>
    ELSE <<P("{"), Lit(Str("a")), P(":"), Lit(Str("x")), P(","),
           Lit(Str("b")), P(":"), P("{"),
              Lit(Str("signatures")), P(":"), P("["), Lit(Num(2)), P(","), Lit(Num(1)), P("]"), P(","),
              Lit(Str("unsigned")), P(":"), Lit(Num(1)),
           P("}"), P("}")>>

ExpectedSigs(opt, c) ==
    CASE opt \in {"none", "empty"} -> EmptyMap
      [] opt = "valid" -> ("e1" :> ("k1" :> sign_detached(c, "sk1")))
      [] opt = "padded" -> ("e1" :> ("k1" :> sign_detached(c, "sk2")))
      [] opt = "two" -> ("e1" :> (("k1" :> Alter(sign_detached(c, "sk1")))
                                  @@ ("k2" :> sign_detached(OtherMsg, "sk1"))))
                        @@ ("e2" :> ("k1" :> sign_detached(c, "sk1")))
      [] opt = "emptyent" -> ("e1" :> EmptyMap)

ExpectedUnsigned(opt) ==
    CASE opt = "none" -> None
      [] opt = "num" -> Some(Num(7))
      [] opt = "str" -> Some(Str("u"))

\* [{"e1":{"k1":"<signature>"}}]
ArrayDoc == <<P("[")>> \o SigToks("valid", OtherMsg) \o <<P("]")>>

\* The signatures of the document's top-level `signatures` field.
SignaturesField(bytes) ==
    IF DocsOf(bytes) = {} THEN EmptyMap
    ELSE LET d == CHOOSE x \in DocsOf(bytes) : TRUE IN ExpectedSigs(d.sig, ExpectedCanon(d.body))

FromSliceOk == IsFrozen /\ LastOp("from_slice") /\ Last.ok

\* C7 as claimed: a successful from_slice gives canonical =
\* canonicalize(bytes), the input bytes as cache, the decoded top-level
\* `unsigned` (absent if none) and exactly the signatures of the
\* document's `signatures` field.
C7_FromSliceAsClaimed ==
    FromSliceOk =>
        LET bytes == Unwrap(input).bytes IN
        /\ Some(Frozen.canonical) = canonicalize(bytes)
        /\ Frozen.serialized = Some(bytes)
        /\ \A d \in DocsOf(bytes) : Frozen.unsigned = ExpectedUnsigned(d.uns)
        /\ signatures(Frozen) = SignaturesField(bytes)

\* C7, amended: as claimed when the document is a JSON object; a document
\* that is a one-element array also succeeds, with the container decoded
\* from that element, no unsigned value and nothing removed from the
\* canonical bytes.
C7_FromSliceResult ==
    FromSliceOk =>
        LET bytes == Unwrap(input).bytes IN
        /\ Some(Frozen.canonical) = canonicalize(bytes)
        /\ Frozen.serialized = Some(bytes)
        /\ bytes \in ObjectDocs \cup {ArrayDoc}
        /\ \A d \in DocsOf(bytes) :
              /\ Frozen.canonical = ExpectedCanon(d.body)
              /\ Frozen.unsigned = ExpectedUnsigned(d.uns)
              /\ signatures(Frozen) = ExpectedSigs(d.sig, ExpectedCanon(d.body))
        /\ bytes = ArrayDoc =>
              /\ Frozen.canonical = ArrayDoc
              /\ Frozen.unsigned = None
              /\ signatures(Frozen) = ("e1" :> ("k1" :> sign_detached(OtherMsg, "sk1")))

\* A document written out of key order with whitespace, holding three
\* signatures (one of them not valid), a string `unsigned` and nested
\* reserved names.
C7_Witness ==
    /\ FromSliceOk
    /\ Unwrap(input).utype = "String"
    /\ \E d \in DocsOf(Unwrap(input).bytes) :
          d.sig = "two" /\ d.uns = "str" /\ d.body # <<>> /\ d.rev
    /\ Present(signatures(Frozen), "e1", "k2")
    /\ Frozen.serialized # Some(Frozen.canonical)

\* C8: wrap clears the value's signatures before computing the canonical
\* bytes: the result has an empty container (verify is Unsigned for every
\* key), the canonical bytes of the cleared value, the unsigned value the
\* type exposes, and no cache.
C8_WrapResult ==
    (IsFrozen /\ LastOp("wrap")) =>
        LET value == Unwrap(input).value IN
        /\ signatures(Frozen) = EmptyMap
        /\ \A key \in AllVerifyKeys : verify(key, Frozen) = "Unsigned"
        /\ Frozen.canonical = T_as_canonical(T_with_signatures(value, EmptyMap))
        /\ Frozen.canonical = to_vec(Obj(value.content))
        /\ Frozen.unsigned = value.unsigned
        /\ Frozen.serialized = None
        /\ deref(Frozen) = T_with_signatures(value, EmptyMap)

\* The wrapped value carried signatures of two entities, an unsigned value
\* and a content field.
C8_Witness ==
    /\ IsFrozen
    /\ LastOp("wrap")
    /\ DOMAIN Unwrap(input).value.signatures = Entities
    /\ IsSome(Unwrap(input).value.unsigned)
    /\ DOMAIN Unwrap(input).value.content # {}

FromSliceCalled == LastOp("from_slice")

\* Documents that are JSON but not a SimpleSigned.
NotSimpleSigned == OtherDocs \ {ArrayDoc}

\* C9 as claimed: from_slice gives an error and no object when the bytes
\* are not JSON, when `unsigned` does not decode to U, or when the rest
\* does not decode to the live type, which includes every value under
\* `signatures` that is not the unpadded base64 of exactly 64 bytes.
C9_DecodeErrorsAsClaimed ==
    FromSliceCalled =>
        LET bytes == Unwrap(input).bytes
            utype == Unwrap(input).utype
        IN
        /\ ~Last.ok => (frozen = None /\ phase = "failed")
        /\ bytes \in Malformed => ~Last.ok
        /\ bytes \in NotSimpleSigned => ~Last.ok
        /\ \A d \in DocsOf(bytes) :
              /\ (d.uns = "num" /\ utype = "String") => ~Last.ok
              /\ d.sig \in {"notmap", "notstr", "notb64", "short", "padded"} => ~Last.ok

\* C9, amended: as claimed, except that the base64 text of a signature may
\* carry '=' padding: a value under `signatures` is rejected when it is
\* not a string, not base64, or decodes to other than 64 bytes.
C9_DecodeErrors ==
    FromSliceCalled =>
        LET bytes == Unwrap(input).bytes
            utype == Unwrap(input).utype
        IN
        /\ ~Last.ok => (frozen = None /\ phase = "failed")
        /\ bytes \in Malformed => ~Last.ok
        /\ bytes \in NotSimpleSigned => ~Last.ok
        /\ \A d \in DocsOf(bytes) :
              /\ (d.uns = "num" /\ utype = "String") => ~Last.ok
              /\ d.sig \in {"notmap", "notstr", "notb64", "short"} => ~Last.ok
              /\ (d.sig \in {"none", "empty", "valid", "padded", "two", "emptyent"}
                  /\ ~(d.uns = "num" /\ utype = "String")) => Last.ok

\* from_slice refused a document whose only fault is a 63-byte signature.
C9_Witness ==
    /\ FromSliceCalled
    /\ ~Last.ok
    /\ frozen = None
    /\ \E d \in DocsOf(Unwrap(input).bytes) : d.sig = "short" /\ d.uns = "str"
    /\ Unwrap(input).utype = "String"

CanonCalled == LastOp("canonicalize") \/ LastOp("encode_canonically")

\* The value a canonicalization call was given (None: bytes that are not
\* JSON) and the bytes it returned.
CanonIn == IF Last.op = "canonicalize" THEN from_slice_value(Last.bytes) ELSE Some(Last.value)

CanonOut == IF Last.op = "canonicalize" THEN Last.res ELSE Some(Last.res)

\* C10: for an object, the canonical bytes hold no top-level `signatures`
\* or `unsigned`, hold every other top-level key with its value, and keep
\* those names inside nested objects; anything else loses nothing.
C10_ReservedStripped ==
    (CanonCalled /\ IsSome(CanonIn)) =>
        /\ IsSome(CanonOut)
        /\ LET given == Unwrap(CanonIn)
               out == from_slice_value(Unwrap(CanonOut))
           IN /\ IsSome(out)
              /\ IF given.k = "obj"
                 THEN /\ Unwrap(out).k = "obj"
                      /\ DOMAIN Unwrap(out).m = (DOMAIN given.m) \ {"signatures", "unsigned"}
                      /\ \A x \in DOMAIN Unwrap(out).m : Unwrap(out).m[x] = given.m[x]
                 ELSE Unwrap(out) = given
        /\ Last.op = "canonicalize" =>
              \A d \in DocsOf(Last.bytes) : Last.res = Some(ExpectedCanon(d.body))

\* canonicalize was given a document with both reserved keys at the top
\* and both names again inside a nested object.
C10_Witness ==
    /\ LastOp("canonicalize")
    /\ \E d \in DocsOf(Last.bytes) : d.sig = "two" /\ d.uns = "num" /\ d.body # <<>> /\ d.rev
    /\ Last.res = Some(ExpectedCanon(
                         <<Member("b", NestedToks), Member("a", <<Lit(Str("x"))>>)>>))

(***************************************************************************)
(* Canonicalization determinism                                            *)
(***************************************************************************)
\* The fields of a document other than the top-level reserved ones; None if
\* the bytes are not a JSON document.
FieldsOf(bytes) ==
    LET val == from_slice_value(bytes) IN
    IF ~IsSome(val) THEN None
    ELSE LET v == Unwrap(val) IN
         IF v.k = "obj"
         THEN Some(Obj([x \in (DOMAIN v.m) \ {"signatures", "unsigned"} |-> v.m[x]]))
         ELSE Some(v)

\* Two documents with the same fields: they may differ in the order of
\* object keys, in whitespace and in their top-level reserved fields.
FieldIdentical(b1, b2) == IsSome(FieldsOf(b1)) /\ FieldsOf(b1) = FieldsOf(b2)

KeyRank(key) == CHOOSE i \in 1..Len(KeyOrder) : KeyOrder[i] = key

\* Read bytes left to right: every object's keys appear in strictly
\* ascending order.  open holds, for each container not yet closed, the
\* rank of the last key read (0 when none).
RECURSIVE KeysAscendingFrom(_, _)
KeysAscendingFrom(ts, open) ==
    IF ts = <<>> THEN TRUE
    ELSE LET h == Head(ts)
             top == Len(open)
         IN IF IsLit(h) THEN
                IF Len(ts) >= 2 /\ IsP(ts[2], ":")
                THEN /\ KeyRank(h.lit.s) > open[top]
                     /\ KeysAscendingFrom(Tail(Tail(ts)),
                                          [open EXCEPT ![top] = KeyRank(h.lit.s)])
                ELSE KeysAscendingFrom(Tail(ts), open)
            ELSE IF h.p \in {"{", "["} THEN KeysAscendingFrom(Tail(ts), Append(open, 0))
            ELSE IF h.p \in {"}", "]"} THEN KeysAscendingFrom(Tail(ts), SubSeq(open, 1, top - 1))
            ELSE KeysAscendingFrom(Tail(ts), open)

KeysAscending(bytes) == KeysAscendingFrom(bytes, <<>>)

HasNestedObject(bytes) ==
    \E i, j \in 1..Len(bytes) : i < j /\ IsP(bytes[i], "{") /\ IsP(bytes[j], "{")

HasArray(bytes) == \E i \in 1..Len(bytes) : IsP(bytes[i], "[")

\* C11: documents that are field-identical except for the order of object
\* keys, whitespace and the contents of their top-level `signatures` and
\* `unsigned` fields canonicalize to the same bytes; in those bytes the
\* keys of every object, at every nesting level, are in ascending order,
\* and arrays keep the order of their elements (the output read back is the
\* document's fields, arrays element by element).
C11_CanonicalizeDeterministic ==
    (LastOp("canonicalize") /\ IsSome(Last.res)) =>
        /\ \A b2 \in Docs :
              FieldIdentical(Last.bytes, b2) => canonicalize(b2) = Last.res
        /\ KeysAscending(Unwrap(Last.res))
        /\ from_slice_value(Unwrap(Last.res)) = FieldsOf(Last.bytes)

\* canonicalize was called on a document with whitespace, a nested object
\* and an array, and another document has the same fields with the nested
\* object's keys written in the other order and with other reserved fields.
C11_Witness ==
    /\ LastOp("canonicalize") /\ IsSome(Last.res)
    /\ \E i \in 1..Len(Last.bytes) : Last.bytes[i] = WS
    /\ HasNestedObject(Unwrap(Last.res)) /\ HasArray(Unwrap(Last.res))
    /\ ~KeysAscending(Last.bytes)
    /\ Last.bytes \in PermutedDocs
    /\ \E b2 \in Docs \ PermutedDocs :
          /\ FieldIdentical(Last.bytes, b2)
          /\ compact_json(b2) # compact_json(Last.bytes)
          /\ from_slice_value(b2) # from_slice_value(Last.bytes)

(***************************************************************************)
(* The Signature Container's mutators                                      *)
(***************************************************************************)
\* The arguments of the add_signature call a mutating step made (sign
\* makes one with the key's names and the signature it computed).
AddedSlot(op, f) ==
    IF op.op = "sign"
    THEN [entity |-> op.key.entity, key_id |-> op.key.key_id,
          sig |-> sign_detached(as_canonical(f), op.key.secret)]
    ELSE [entity |-> op.entity, key_id |-> op.key_id, sig |-> op.sig]

\* C12: add_signature(entity, key_id, sig) inserts or overwrites exactly
\* the slot (entity, key_id): afterwards get_signature(entity, key_id)
\* returns sig, every other slot returns what it returned before, and the
\* same call applied again leaves the container unchanged; after clear()
\* get_signature is absent for every slot.
C12_AddSignatureFrame ==
    [][ (muts' = muts + 1) =>
          LET before == signatures(Unwrap(frozen))
              after == signatures(Unwrap(frozen'))
              op == Unwrap(last')
          IN IF op.op = "clear"
             THEN \A e \in Entities, n \in KeyIds : get_signature(after, e, n) = None
             ELSE LET a == AddedSlot(op, Unwrap(frozen)) IN
                  /\ get_signature(after, a.entity, a.key_id) = Some(a.sig)
                  /\ \A e \in Entities, n \in KeyIds :
                        <<e, n>> # <<a.entity, a.key_id>> =>
                            get_signature(after, e, n) = get_signature(before, e, n)
                  /\ add_signature(after, a.entity, a.key_id, a.sig) = after
      ]_vars

\* add_signature has overwritten the slot (e1, k1) of a document that came
\* with three signatures, two of them in other slots, one of these under
\* the same entity.
C12_Witness ==
    /\ IsFrozen /\ LastOp("add_signature")
    /\ Last.entity = "e1" /\ Last.key_id = "k1"
    /\ Unwrap(input).fn = "from_slice"
    /\ get_signature(ExpectedSigs("two", as_canonical(Frozen)), "e1", "k1") # Some(Last.sig)
    /\ get_signature(signatures(Frozen), "e1", "k1") = Some(Last.sig)
    /\ IsSome(get_signature(signatures(Frozen), "e1", "k2"))
    /\ IsSome(get_signature(signatures(Frozen), "e2", "k1"))

(***************************************************************************)
(* The Signature Container's enumerations                                  *)
(***************************************************************************)
\* rank is strictly increasing along q.
StrictlyAscending(q, rank(_)) ==
    \A i, j \in 1..Len(q) : i < j => rank(q[i]) < rank(q[j])

Range(q) == {q[i] : i \in 1..Len(q)}

\* Entity first, key-id second.
SlotRank(t) == KeyRank(t[1]) * (Len(KeyOrder) + 1) + KeyRank(t[2])

PairRank(pr) == KeyRank(pr[1])

\* C13: get_signatures() enumerates exactly the (entity, key_id,
\* signature) triples for which get_signature is present, each once, in
\* ascending order of entity and then key-id; get_entities() yields each
\* entity once, in ascending order; get_signatures_for_entity(e) yields
\* exactly e's (key_id, signature) pairs in ascending key-id order, and the
\* empty sequence when e is unknown.
\* The slots of c that hold a signature.
PresentSlots(c) == { s \in Entities \X KeyIds : IsSome(get_signature(c, s[1], s[2])) }

C13_Enumerations ==
    IsFrozen /\ IsSome(last) =>
        LET c == signatures(Frozen) IN
        /\ Last.op = "get_signatures" =>
              /\ StrictlyAscending(Last.res, SlotRank)
              /\ Range(Last.res) =
                    { <<s[1], s[2], Unwrap(get_signature(c, s[1], s[2]))>> : s \in PresentSlots(c) }
        /\ Last.op = "get_entities" =>
              /\ StrictlyAscending(Last.res, KeyRank)
              /\ {s[1] : s \in PresentSlots(c)} \subseteq Range(Last.res)
              /\ Range(Last.res) \subseteq DOMAIN c
              /\ (\A e \in DOMAIN c : c[e] # EmptyMap) =>
                    Range(Last.res) = {s[1] : s \in PresentSlots(c)}
        /\ Last.op = "get_signatures_for_entity" =>
              /\ StrictlyAscending(Last.res, PairRank)
              /\ Range(Last.res) =
                    { <<s[2], Unwrap(get_signature(c, s[1], s[2]))>> :
                        s \in {x \in PresentSlots(c) : x[1] = Last.entity} }
              /\ (\A n \in KeyIds : get_signature(c, Last.entity, n) = None) => Last.res = <<>>

\* After a mutation the container holds all four slots, under two
\* entities and two key-ids, and get_signatures was read.
C13_Witness ==
    /\ IsFrozen /\ muts >= 1
    /\ LastOp("get_signatures") /\ Len(Last.res) = 4
    /\ PresentSlots(signatures(Frozen)) = Entities \X KeyIds

(***************************************************************************)
(* The cached full serialization                                           *)
(***************************************************************************)
ReadOps == {"verify", "as_canonical", "deref", "get_signature",
            "get_signatures", "get_entities", "get_signatures_for_entity"}

\* The object from_slice built from the input, before any later call.
AtConstruction == Unwrap(from_slice(Unwrap(input).bytes, Unwrap(input).utype))

CachePresent == IsFrozen /\ IsSome(Frozen.serialized)

\* C14: the cached full serialization is never stale: whenever the cache
\* is present the object was built by from_slice, the cache equals the
\* original input bytes and the live Signature Container equals the one
\* decoded at construction; the read operations (signatures and its
\* lookups, as_canonical, deref, verify) change neither the cache nor any
\* other field.
C14_CacheNeverStale ==
    /\ [](CachePresent =>
            /\ Unwrap(input).fn = "from_slice"
            /\ Frozen.serialized = Some(Unwrap(input).bytes)
            /\ signatures(Frozen) = signatures(AtConstruction))
    /\ [][ (IsSome(last') /\ Unwrap(last').op \in ReadOps) => frozen' = frozen ]_vars

\* The cache is present after a verify that found a valid signature in a
\* document that also carries an `unsigned` value.
C14_Witness ==
    /\ CachePresent
    /\ LastOp("verify") /\ Last.res = "Valid"
    /\ IsSome(Frozen.unsigned)
    /\ PresentSlots(signatures(Frozen)) # {}

====
